---- MODULE Spec2Model ----
(***************************************************************************)
(* The request validation pipeline of the OpenID Connect resource server   *)
(* (AuthenticatedRequest.js, Credential.js, DPoPToken.js).                  *)
(*                                                                         *)
(* One AuthenticatedRequest is one run of a promise chain.  Every callback *)
(* of the chain is one action; pc names the callback that runs next.  A    *)
(* callback that throws (or returns a rejected promise) moves pc to        *)
(* "catch", where the final .catch(error => request.error(error)) runs.    *)
(*                                                                         *)
(* The request, the options, the token and the DPoP proof are immutable    *)
(* inputs.  Each input is fixed by the step that first reads it (until     *)
(* then it holds Unread), which explores the same runs as fixing all of    *)
(* them up front while keeping unread inputs out of the state.             *)
(***************************************************************************)
EXTENDS Integers, Sequences, FiniteSets, TLC

VARIABLES
    pc,            \* the callback of the promise chain that runs next
    trace,         \* the callbacks that have run, in order
    req,           \* the incoming request (headers, query, body, method, host)
    options,       \* the middleware options other than handleErrors
    handleErrors,  \* options.handleErrors
    token,         \* request.token
    tokenType,     \* request.tokenType
    jwt,           \* the decoded access token (JWT.decode(token))
    credential,    \* request.credential: the Credential variant
    dpop,          \* the decoded DPoP proof (req.headers.dpop)
    providers,     \* rs.providers: the ProviderCache and the issuer's live JWK Set
    keys,          \* what KEY+SIG did: resolve / rotate calls, matched key
    res,           \* the response: status, challenge, bodies written
    nextCalls,     \* the calls of next, in order: "ok" or "error"
    published,     \* the properties success wrote on req
    downstream,    \* what the next middleware does when success calls next()
    err            \* the rejection travelling down the chain

vars == <<pc, trace, req, options, handleErrors, token, tokenType, jwt, credential,
          dpop, providers, keys, res, nextCalls, published, downstream, err>>

Unread == "unread"
Absent == "absent"

\* the same for number-valued inputs
NotRead == 0 - 1
\* no JWK Set: nothing cached, or a fetch that failed
NoJwks == {}

\* the cache entry of an issuer that was not looked at yet
UnreadCache == {NotRead}
PickCache(cur, D) == IF cur = UnreadCache THEN D ELSE {cur}

\* An input already read keeps its value; an unread one is drawn from its domain.
Pick(cur, D) == IF cur = Unread THEN D ELSE {cur}
PickNumber(cur, D) == IF cur = NotRead THEN D ELSE {cur}
PickHost(cur, D) == IF cur = <<Unread>> THEN D ELSE {cur}
PickHtu(cur, D) == IF cur.path = Unread THEN D ELSE {cur}

(***************************************************************************)
(* Bounds                                                                  *)
(***************************************************************************)
\* The issuer publishes MaxJwksVersion JWK Sets, one after the other; the
\* v-th holds the signing keys with kid 1..v (a rotation adds a key).
MaxJwksVersion == 2
\* The wall clock when the token is validated.
Clock == 2

(***************************************************************************)
(* Input domains                                                           *)
(***************************************************************************)
\* Authorization header values (Node strips surrounding whitespace, so a
\* two-component header always has non-empty credentials).
Authorizations ==
    {Absent, "Bearer h.tok", "DPoP h.tok", "Basic h.tok", "Bearer", "Bearer h.tok x"}
QueryParams    == {Absent, "q.tok"}
BodyParams     == {Absent, "b.tok"}
ContentTypes   == {Absent, "application/x-www-form-urlencoded; charset=UTF-8",
                   "application/json"}
\* options.query / options.optional: true, not given, or a truthy non-boolean
StrictFlags    == {"true", Absent, "1"}
\* options.handleErrors: false or not given (the default)
HandleErrorsValues == {"false", Absent}

(***************************************************************************)
(* String helpers, as tables over the domains above                        *)
(***************************************************************************)
\* authorization.split(' ')
Split(s) ==
    CASE s = "Bearer h.tok"   -> <<"Bearer", "h.tok">>
      [] s = "DPoP h.tok"     -> <<"DPoP", "h.tok">>
      [] s = "Basic h.tok"    -> <<"Basic", "h.tok">>
      [] s = "Bearer"         -> <<"Bearer">>
      [] s = "Bearer h.tok x" -> <<"Bearer", "h.tok", "x">>
      [] OTHER                -> <<s>>

\* scheme.toLowerCase()
ToLowerCase(s) ==
    CASE s = "Bearer" -> "bearer"
      [] s = "DPoP"   -> "dpop"
      [] s = "Basic"  -> "basic"
      [] OTHER        -> s

\* variant: the content type is compared, parameters and all
EqualsFormType(ct) == ct = "application/x-www-form-urlencoded"

\* contentType.includes('application/x-www-form-urlencoded')
IncludesFormType(ct) == ct = "application/x-www-form-urlencoded; charset=UTF-8"

LEGACY_POP == "legacyPop"
DPOP == "dpop"
tokenTypesSupported == {DPOP, LEGACY_POP}

\* JavaScript truthiness of a string-valued input
Truthy(v) == v \notin {Absent, "none", "false", ""}

(***************************************************************************)
(* The tagged errors and the response helpers                              *)
(***************************************************************************)
NoError == [kind |-> "none", handled |-> FALSE, status |-> 0,
            error |-> Absent, description |-> Absent]

\* new BadRequestError / UnauthorizedError / ForbiddenError (params): the
\* errors module marks them handled, so the final catch leaves them alone.
TaggedError(status, error, description) ==
    [kind |-> "tagged", handled |-> TRUE, status |-> status,
     error |-> error, description |-> description]

\* any other exception (a TypeError, a rejected provider fetch, a throwing next)
UntaggedError(description) ==
    [kind |-> "untagged", handled |-> FALSE, status |-> 0,
     error |-> Absent, description |-> description]

\* options.handleErrors === false
ForwardsErrors(he) == he = "false"

\* encodeChallengeParams(params): the parameters of the WWW-Authenticate
\* challenge, one per key the caller passed
encodeChallengeParams(error, description) ==
    {"realm"} \cup (IF error # Absent THEN {"error"} ELSE {})
              \cup (IF description # Absent THEN {"error_description"} ELSE {})

\* badRequest / unauthorized / forbidden: set the status (and the challenge),
\* then next(error) or write the body, then throw the error.
Respond(status, challenge, error, description, body) ==
    \E he \in Pick(handleErrors, HandleErrorsValues) :
        /\ handleErrors' = he
        /\ res' = [res EXCEPT !.status = status,
                              !.challenge = IF challenge
                                             THEN Append(@, encodeChallengeParams(error, description))
                                             ELSE @,
                              !.error = error,
                              !.description = description,
                              !.bodies = IF ForwardsErrors(he) THEN @ ELSE Append(@, body)]
        /\ nextCalls' = IF ForwardsErrors(he) THEN Append(nextCalls, "error") ELSE nextCalls
        /\ err' = TaggedError(status, error, description)
        /\ pc' = "catch"

badRequest(description) == Respond(400, FALSE, "invalid_request", description, "json")
unauthorized(error, description) == Respond(401, TRUE, error, description, "Unauthorized")
\* variant: a policy rejection answered as a challenge
forbiddenAsUnauthorized(error, description) ==
    Respond(401, TRUE, error, description, "Unauthorized")
forbidden(error, description) == Respond(403, TRUE, error, description, "Forbidden")

\* a callback throws something that is not a tagged error
Throw(description) ==
    /\ err' = UntaggedError(description)
    /\ pc' = "catch"
    /\ UNCHANGED <<handleErrors, res, nextCalls>>

\* a callback returns the request: the next callback of the chain runs
Continue(step) ==
    /\ pc' = step
    /\ UNCHANGED <<handleErrors, res, nextCalls, err>>

Ran(step) == trace' = Append(trace, step)

(***************************************************************************)
(* The promise chains                                                      *)
(***************************************************************************)
\* authenticate: Promise.resolve(request).then(...) ... .then(request.success)
AuthenticateChain ==
    <<"validateAuthorizationHeader", "validateQueryParameter",
      "validateBodyParameter", "requireAccessToken", "validateAccessToken",
      "success">>

\* a chain with two of its callbacks in the wrong order
ValidationChainDenyFirst ==
    <<"decode", "validatePoPToken", "deny", "allow", "resolveKeys",
      "verifySignature", "validateExpiry", "validateNotBefore", "validateScope">>

\* a chain that checks the scopes before the token is verified
ValidationChainScopeFirst ==
    <<"decode", "validatePoPToken", "validateScope", "allow", "deny", "resolveKeys",
      "verifySignature", "validateExpiry", "validateNotBefore">>

\* a chain that resolves the issuer's keys before the policy is applied
ValidationChainKeysFirst ==
    <<"decode", "validatePoPToken", "resolveKeys", "allow", "deny",
      "verifySignature", "validateExpiry", "validateNotBefore", "validateScope">>

\* validateAccessToken: Promise.resolve(request).then(request.decode) ...
ValidationChain ==
    <<"decode", "validatePoPToken", "allow", "deny", "resolveKeys",
      "verifySignature", "validateExpiry", "validateNotBefore", "validateScope">>

Range(seq) == {seq[i] : i \in 1..Len(seq)}
IndexIn(seq, step) == CHOOSE i \in 1..Len(seq) : seq[i] = step

\* the callback chained after `step`; the promise validateAccessToken returns
\* resolves when its inner chain does
Then(step) ==
    IF step \in Range(ValidationChain)
      THEN IF IndexIn(ValidationChain, step) < Len(ValidationChain)
             THEN ValidationChain[IndexIn(ValidationChain, step) + 1]
             ELSE AuthenticateChain[IndexIn(AuthenticateChain, "validateAccessToken") + 1]
      ELSE AuthenticateChain[IndexIn(AuthenticateChain, step) + 1]

(***************************************************************************)
(* Initial state: new AuthenticatedRequest(rs, req, res, next, options)     *)
(*                                                                         *)
(* The runs are explored in four families.   Each family leaves the inputs *)
(* of one part of the pipeline unread, so that they range over their whole *)
(* domain, and starts with the inputs of the other parts already fixed:    *)
(*   InitRequest  EXTRACT, REQUIRE, DECODE and POP_VERIFY range freely;    *)
(*   InitPolicy   the allow and deny options and the iss, aud and sub      *)
(*                claims range freely, for each way a token is carried;    *)
(*   InitKeys     the provider cache, the key match, the signature, the    *)
(*                temporal claims, the scopes and success range freely.    *)
(*   InitAudience one token behind an audience allow list, for each of the *)
(*                three places a token is taken from.                      *)
(***************************************************************************)
UnreadReq ==
    [authorization |-> Unread, query |-> Unread, body |-> Unread,
     contentType |-> Unread, method |-> Unread, host |-> <<Unread>>]

UnreadOptions ==
    [query |-> Unread, optional |-> Unread, realm |-> Unread,
     allow |-> Unread,
     allowAudience |-> Unread, allowIssuers |-> Unread, allowSubjects |-> Unread,
     deny |-> Unread,
     denyIssuers |-> Unread, denyAudience |-> Unread, denySubjects |-> Unread,
     scopes |-> Unread, tokenProperty |-> Unread, claimsProperty |-> Unread]

UnreadJwt ==
    [format |-> Unread, token_type |-> Unread, inner |-> Unread,
     cnf |-> Unread, iss |-> Unread, sub |-> Unread,
     aud |-> [kind |-> Unread, vals |-> {}],
     kid |-> NotRead, signature |-> Unread, exp |-> NotRead,
     nbf |-> NotRead, scope |-> Unread]

UnreadDpop ==
    [header |-> Unread, jwk |-> Unread, signature |-> Unread,
     htu |-> [host |-> <<Unread>>, path |-> Unread], htm |-> Unread,
     pop |-> Unread]

\* a well-formed DPoP request for the configured server
GoodDpop ==
    [header |-> "jwt", jwk |-> "jwkA", signature |-> "valid",
     htu |-> [host |-> <<"example", "com">>, path |-> "/resource"], htm |-> "GET",
     pop |-> Unread]

\* what every run starts with
InitPipeline ==
    /\ pc = AuthenticateChain[1]
    /\ trace = <<>>
    /\ handleErrors = Unread
    /\ token = "none"
    /\ tokenType = "none"
    /\ credential = "none"
    /\ keys = [resolveCalls |-> 0, rotateCalls |-> 0, resolveKeysCalls |-> 0,
               fetches |-> 0, first |-> NoJwks, rotated |-> NoJwks,
               matched |-> FALSE]
    /\ res = [status |-> 0, challenge |-> <<>>, error |-> Absent,
              description |-> Absent, bodies |-> <<>>]
    /\ nextCalls = <<>>
    /\ published = {}
    /\ downstream = Unread
    /\ err = NoError

\* a token that passes KEY+SIG, TEMPORAL and SCOPE, for a route without
\* policy, scopes or property options
PassingJwt ==
    [UnreadJwt EXCEPT !.kid = 1, !.signature = "valid", !.exp = Clock + 1,
                      !.nbf = Clock]
NoPolicy ==
    [UnreadOptions EXCEPT !.allow = Absent, !.deny = Absent, !.scopes = Absent,
                          !.tokenProperty = Absent, !.claimsProperty = Absent]

InitRequest ==
    /\ InitPipeline
    /\ req = UnreadReq
    /\ options = NoPolicy
    /\ jwt = PassingJwt
    /\ dpop = UnreadDpop
    /\ providers = [cached |-> 1..1]

\* the ways an access token is carried: Bearer header, DPoP header, query
Carriers ==
    {[UnreadReq EXCEPT !.authorization = "Bearer h.tok", !.query = Absent,
                       !.body = Absent],
     [UnreadReq EXCEPT !.authorization = "DPoP h.tok", !.query = Absent,
                       !.body = Absent, !.method = "GET",
                       !.host = <<"example", "com">>],
     [UnreadReq EXCEPT !.authorization = Absent, !.query = "q.tok",
                       !.body = Absent]}

InitPolicy ==
    /\ InitPipeline
    /\ req \in Carriers
    /\ options = [UnreadOptions EXCEPT !.query = "true",
                     !.realm = "https://example.com", !.scopes = Absent,
                     !.tokenProperty = Absent, !.claimsProperty = Absent]
    /\ jwt = [PassingJwt EXCEPT !.format = "jwt", !.token_type = Absent,
                                !.cnf = "thumbA"]
    /\ dpop = GoodDpop
    /\ providers = [cached |-> 1..1]

InitKeys ==
    /\ InitPipeline
    /\ req = [UnreadReq EXCEPT !.authorization = "Bearer h.tok", !.query = Absent,
                               !.body = Absent]
    /\ options = [UnreadOptions EXCEPT !.allow = Absent, !.deny = Absent]
    /\ jwt = [UnreadJwt EXCEPT !.format = "jwt", !.token_type = Absent]
    /\ dpop = UnreadDpop
    /\ providers = [cached |-> UnreadCache]

\* one token behind an audience allow list, carried each of the three ways
\* (header, query string, form body), with an aud on the list or off it
AudienceCarriers ==
    {[UnreadReq EXCEPT !.authorization = "Bearer h.tok", !.query = Absent,
                       !.body = Absent],
     [UnreadReq EXCEPT !.authorization = Absent, !.query = "q.tok",
                       !.body = Absent],
     [UnreadReq EXCEPT !.authorization = Absent, !.query = Absent,
                       !.body = "b.tok",
                       !.contentType =
                           "application/x-www-form-urlencoded; charset=UTF-8"]}

InitAudience ==
    /\ InitPipeline
    /\ req \in AudienceCarriers
    /\ options = [UnreadOptions EXCEPT !.query = "true",
                     !.realm = "https://example.com",
                     !.allow = "present", !.allowAudience = "list",
                     !.allowIssuers = Absent, !.allowSubjects = Absent,
                     !.deny = Absent, !.scopes = Absent,
                     !.tokenProperty = Absent, !.claimsProperty = Absent]
    /\ \E aud \in {[kind |-> "string", vals |-> {"a1"}],
                    [kind |-> "string", vals |-> {"a3"}],
                    [kind |-> "list",   vals |-> {"a4"}]} :
          jwt = [PassingJwt EXCEPT !.format = "jwt", !.token_type = Absent,
                                   !.aud = aud]
    /\ dpop = GoodDpop
    /\ providers = [cached |-> 1..1]

Init == InitRequest \/ InitPolicy \/ InitKeys \/ InitAudience

(***************************************************************************)
(* EXTRACT                                                                 *)
(***************************************************************************)
\* The verdict of validateAuthorizationHeader on a header and the token so far.
AuthorizationHeaderVerdict(authorization, tok) ==
    LET components == Split(authorization)
        scheme == components[1]
    IN  IF Truthy(authorization) /\ Truthy(tok)
          THEN [bad |-> "Multiple authentication methods"]
        ELSE IF ~Truthy(authorization)
          THEN [bad |-> "", tokenType |-> tokenType, token |-> tok]
        ELSE IF Len(components) # 2
          THEN [bad |-> "Invalid authorization header"]
        ELSE IF ToLowerCase(scheme) = "bearer" /\ LEGACY_POP \in tokenTypesSupported
          THEN [bad |-> "", tokenType |-> "bearer", token |-> components[2]]
        ELSE IF ToLowerCase(scheme) = "dpop" /\ DPOP \in tokenTypesSupported
          THEN [bad |-> "", tokenType |-> "dpop", token |-> components[2]]
        ELSE [bad |-> "Invalid authorization scheme"]

validateAuthorizationHeader ==
    /\ pc = "validateAuthorizationHeader"
    /\ Ran("validateAuthorizationHeader")
    /\ \E authorization \in Pick(req.authorization, Authorizations) :
        LET v == AuthorizationHeaderVerdict(authorization, token) IN
        /\ req' = [req EXCEPT !.authorization = authorization]
        /\ IF v.bad # ""
             THEN /\ badRequest(v.bad)
                  /\ UNCHANGED <<token, tokenType>>
             ELSE /\ token' = v.token
                  /\ tokenType' = v.tokenType
                  /\ Continue(Then("validateAuthorizationHeader"))
    /\ UNCHANGED <<options, jwt, credential, dpop, providers, keys, published, downstream>>

\* variant: any truthy options.query enables the query parameter
QueryParameterVerdictTruthy(param, query, tok) ==
    IF Truthy(param) /\ ~Truthy(query)
      THEN [bad |-> "Invalid authentication method"]
    ELSE IF Truthy(param) /\ Truthy(tok)
      THEN [bad |-> "Multiple authentication methods"]
    ELSE IF Truthy(param)
      THEN [bad |-> "", token |-> param]
    ELSE [bad |-> "", token |-> tok]

\* The verdict of validateQueryParameter.
QueryParameterVerdict(param, query, tok) ==
    IF Truthy(param) /\ query # "true"
      THEN [bad |-> "Invalid authentication method"]
    ELSE IF Truthy(param) /\ Truthy(tok)
      THEN [bad |-> "Multiple authentication methods"]
    ELSE IF Truthy(param)
      THEN [bad |-> "", token |-> param]
    ELSE [bad |-> "", token |-> tok]

validateQueryParameter ==
    /\ pc = "validateQueryParameter"
    /\ Ran("validateQueryParameter")
    /\ \E param \in Pick(req.query, QueryParams) :
       \E query \in (IF Truthy(param) THEN Pick(options.query, StrictFlags)
                                      ELSE {options.query}) :
        LET v == QueryParameterVerdict(param, query, token) IN
        /\ req' = [req EXCEPT !.query = param]
        /\ options' = [options EXCEPT !.query = query]
        /\ IF v.bad # ""
             THEN /\ badRequest(v.bad)
                  /\ UNCHANGED token
             ELSE /\ token' = v.token
                  /\ Continue(Then("validateQueryParameter"))
    /\ UNCHANGED <<tokenType, jwt, credential, dpop, providers, keys, published, downstream>>

\* variant: a body parameter replaces the token found before it
BodyParameterVerdictLastWins(param, contentType, tok) ==
    IF Truthy(param)
      THEN [bad |-> "", throws |-> FALSE, token |-> param]
      ELSE [bad |-> "", throws |-> FALSE, token |-> tok]

\* The verdict of validateBodyParameter; "throws" is the TypeError of
\* contentType.includes on a request without a Content-Type header.
BodyParameterVerdict(param, contentType, tok) ==
    IF Truthy(param) /\ Truthy(tok)
      THEN [bad |-> "Multiple authentication methods", throws |-> FALSE]
    ELSE IF Truthy(param) /\ contentType = Absent
      THEN [bad |-> "", throws |-> TRUE]
    ELSE IF Truthy(param) /\ ~IncludesFormType(contentType)
      THEN [bad |-> "Invalid Content-Type", throws |-> FALSE]
    ELSE IF Truthy(param)
      THEN [bad |-> "", throws |-> FALSE, token |-> param]
    ELSE [bad |-> "", throws |-> FALSE, token |-> tok]

validateBodyParameter ==
    /\ pc = "validateBodyParameter"
    /\ Ran("validateBodyParameter")
    /\ \E param \in Pick(req.body, BodyParams) :
       \E contentType \in (IF Truthy(param) /\ ~Truthy(token)
                             THEN Pick(req.contentType, ContentTypes)
                             ELSE {req.contentType}) :
        LET v == BodyParameterVerdict(param, contentType, token) IN
        /\ req' = [req EXCEPT !.body = param, !.contentType = contentType]
        /\ IF v.bad # ""
             THEN /\ badRequest(v.bad)
                  /\ UNCHANGED token
           ELSE IF v.throws
             THEN /\ Throw("TypeError: Cannot read property 'includes' of undefined")
                  /\ UNCHANGED token
             ELSE /\ token' = v.token
                  /\ Continue(Then("validateBodyParameter"))
    /\ UNCHANGED <<options, tokenType, jwt, credential, dpop, providers, keys, published, downstream>>

(***************************************************************************)
(* REQUIRE                                                                 *)
(***************************************************************************)
\* variant: any truthy options.optional lifts the requirement
MustChallengeUnlessTruthy(tok, optional) == ~Truthy(tok) /\ ~Truthy(optional)

\* !token && optional !== true
MustChallenge(tok, optional) == ~Truthy(tok) /\ optional # "true"

requireAccessToken ==
    /\ pc = "requireAccessToken"
    /\ Ran("requireAccessToken")
    /\ \E optional \in (IF Truthy(token) THEN {options.optional}
                                         ELSE Pick(options.optional, StrictFlags)) :
        /\ options' = [options EXCEPT !.optional = optional]
        /\ IF MustChallenge(token, optional)
             THEN unauthorized(Absent, Absent)
             ELSE Continue(Then("requireAccessToken"))
    /\ UNCHANGED <<req, token, tokenType, jwt, credential, dpop, providers, keys,
                   published, downstream>>

\* options.optional && !token: token not required and none present
PassesThrough(tok, optional) == Truthy(optional) /\ ~Truthy(tok)

validateAccessToken ==
    /\ pc = "validateAccessToken"
    /\ Ran("validateAccessToken")
    /\ \E optional \in Pick(options.optional, StrictFlags) :
        /\ options' = [options EXCEPT !.optional = optional]
        /\ IF PassesThrough(token, optional)
             THEN Continue(Then("validateAccessToken"))
             ELSE Continue(ValidationChain[1])
    /\ UNCHANGED <<req, token, tokenType, jwt, credential, dpop, providers,
                   keys, published, downstream>>

(***************************************************************************)
(* DECODE                                                                  *)
(***************************************************************************)
TokenFormats == {"jwt", "garbage"}     \* whether JWT.decode(token) succeeds
TokenTypes   == {"pop", Absent}        \* jwt.payload.token_type
InnerTokens  == {"jwt", "garbage"}     \* the access token carried by a PoP token

\* variant: the detected scheme is looked at before the token_type claim
CredentialFromSchemeFirst(token_type, inner, tt) ==
    IF tt = "dpop" THEN "DPoPToken"
    ELSE IF token_type = "pop"
      THEN (IF inner = "jwt" THEN "PoPToken" ELSE "throws")
    ELSE "AccessToken"

\* Credential.from(jwt, request): the variant, or "throws" when the PoPToken
\* constructor cannot decode the inner access token.
CredentialFrom(token_type, inner, tt) ==
    IF token_type = "pop"
      THEN (IF inner = "jwt" THEN "PoPToken" ELSE "throws")
    ELSE IF tt = "dpop" THEN "DPoPToken"
    ELSE "AccessToken"

\* variant: only the legacy variant is a PoP token
isLegacyPoPToken(c) == c = "PoPToken"

\* credential.isPoPToken
isPoPToken(c) == c \in {"PoPToken", "DPoPToken"}

decode ==
    /\ pc = "decode"
    /\ Ran("decode")
    /\ \E format \in Pick(jwt.format, TokenFormats) :
        IF format # "jwt"
          THEN /\ jwt' = [jwt EXCEPT !.format = format]
               /\ unauthorized("invalid_token", "Access token is not a JWT")
               /\ UNCHANGED credential
          ELSE \E token_type \in Pick(jwt.token_type, TokenTypes) :
               \E inner \in (IF token_type = "pop" THEN Pick(jwt.inner, InnerTokens)
                                                   ELSE {jwt.inner}) :
                 LET c == CredentialFrom(token_type, inner, tokenType) IN
                 /\ jwt' = [jwt EXCEPT !.format = format, !.token_type = token_type,
                                       !.inner = inner]
                 /\ IF c = "throws"
                      THEN /\ badRequest("Invalid access token")
                           /\ UNCHANGED credential
                      ELSE /\ credential' = c
                           /\ Continue(Then("decode"))
    /\ UNCHANGED <<req, options, token, tokenType, dpop, providers, keys, published, downstream>>

(***************************************************************************)
(* POP_VERIFY                                                              *)
(***************************************************************************)
DpopHeaders    == {Absent, "garbage", "jwt"}   \* req.headers.dpop
Jwks           == {Absent, "jwkA"}             \* the jwk in the proof's header
Signatures     == {"valid", "invalid"}         \* of the proof, under that jwk
Confirmations  == {Absent, "nojkt", "thumbA", "thumbB"}   \* payload.cnf(.jkt)
Methods        == {"GET", "POST"}
ServerUris     == {Absent, "https://example.com"}         \* options.realm
RequestHosts   == {<<"example", "com">>, <<"pod", "example", "com">>,
                   <<"evilexample", "com">>, <<"com">>}
Paths          == {"/resource", "/other"}
RequestPath    == "/resource"
PopOutcomes    == {"valid", "invalid"}         \* PoPToken.validatePoPToken

\* jwkThumbprintByEncoding(jwk, "SHA-256", 'base64url')
Thumbprint(jwk) == IF jwk = "jwkA" THEN "thumbA" ELSE "thumbOther"

\* new URL(serverUri + path).host, as labels
HostOf(serverUri) == IF serverUri = "https://example.com" THEN <<"example", "com">>
                                                         ELSE <<>>

\* JWT.decode(this.dpopHeader, ...) returns the decoded token (null otherwise)
DecodesProof(header) == header = "jwt"

\* JWT.verify(this.dpopHeader, jwkToPem(header.jwk)) does not throw
ProofSignatureVerifies(jwk, signature) == jwk # Absent /\ signature = "valid"

\* variant: a token without cnf.jkt is not compared with the thumbprint
CnfMatchesWhenPresent(cnf, jwk) ==
    cnf \in {Absent, "nojkt"} \/ cnf = Thumbprint(jwk)

\* this.jwt.payload.cnf.jkt === dpopHeaderThumbprint (a missing cnf throws)
CnfMatches(cnf, jwk) == cnf \notin {Absent, "nojkt"} /\ cnf = Thumbprint(jwk)

\* variant: only the labels that both hosts have are compared
isSubdomainSharedLabels(domain, subdomain) ==
    \A i \in 1..Len(domain) :
        Len(subdomain) - i + 1 >= 1 =>
            subdomain[Len(subdomain) - i + 1] = domain[Len(domain) - i + 1]

\* DPoPToken.isSubdomain(domain, subdomain)
isSubdomain(domain, subdomain) ==
    \A i \in 1..Len(domain) :
        /\ Len(subdomain) - i + 1 >= 1
        /\ subdomain[Len(subdomain) - i + 1] = domain[Len(domain) - i + 1]

\* the expected htu: the server URI with the request path, and the request's
\* host in place of the configured one when it is a subdomain of it
RequiredHtu(serverUri, host, path) ==
    [host |-> IF isSubdomain(HostOf(serverUri), host) THEN host ELSE HostOf(serverUri),
     path |-> path]

HtuMatches(htu, serverUri, host, path) == htu = RequiredHtu(serverUri, host, path)

HtmMatches(htm, method) == htm = method

\* the rejection of credential.validatePoPToken()
Rejection(error, description) == [error |-> error, description |-> description]

\* .catch(err => request.unauthorized({error: err.error || 'invalid_token',
\*          error_description: err.error_description || 'Invalid PoP token'}))
PoPFailure(e) ==
    unauthorized(IF e.error # Absent THEN e.error ELSE "invalid_token",
                 IF e.description # Absent THEN e.description ELSE "Invalid PoP token")

\* DPoPToken.validatePoPToken: the checks in the order of the code, each
\* reading the part of the proof it needs.
validateDPoPToken ==
    \E header \in Pick(dpop.header, DpopHeaders) :
      IF ~DecodesProof(header)
        THEN /\ dpop' = [dpop EXCEPT !.header = header]
             /\ UNCHANGED <<jwt, req, options>>
             /\ PoPFailure(Rejection(Absent, Absent))  \* TypeError: null.header
        ELSE
    \E jwk \in Pick(dpop.jwk, Jwks), signature \in Pick(dpop.signature, Signatures) :
      IF ~ProofSignatureVerifies(jwk, signature)
        THEN /\ dpop' = [dpop EXCEPT !.header = header, !.jwk = jwk,
                                     !.signature = signature]
             /\ UNCHANGED <<jwt, req, options>>
             /\ PoPFailure(Rejection("invalid_token", "invalid signature"))
        ELSE
    \E cnf \in Pick(jwt.cnf, Confirmations) :
      IF ~CnfMatches(cnf, jwk)
        THEN /\ dpop' = [dpop EXCEPT !.header = header, !.jwk = jwk,
                                     !.signature = signature]
             /\ jwt' = [jwt EXCEPT !.cnf = cnf]
             /\ UNCHANGED <<req, options>>
             /\ PoPFailure(Rejection("invalid_token",
                    "Access token cnf does not match the DPoP header JWK"))
        ELSE
    \E realm \in Pick(options.realm, ServerUris) :
      IF realm = Absent
        THEN /\ dpop' = [dpop EXCEPT !.header = header, !.jwk = jwk,
                                     !.signature = signature]
             /\ jwt' = [jwt EXCEPT !.cnf = cnf]
             /\ options' = [options EXCEPT !.realm = realm]
             /\ UNCHANGED req
             /\ PoPFailure(Rejection(Absent, Absent))  \* TypeError: Invalid URL
        ELSE
    \E host \in PickHost(req.host, RequestHosts) :
    \E htu \in PickHtu(dpop.htu, [host : RequestHosts, path : Paths]) :
      IF ~HtuMatches(htu, realm, host, RequestPath)
        THEN /\ dpop' = [dpop EXCEPT !.header = header, !.jwk = jwk,
                                     !.signature = signature, !.htu = htu]
             /\ jwt' = [jwt EXCEPT !.cnf = cnf]
             /\ options' = [options EXCEPT !.realm = realm]
             /\ req' = [req EXCEPT !.host = host]
             /\ PoPFailure(Rejection("invalid_token", "htu does not match"))
        ELSE
    \E htm \in Pick(dpop.htm, Methods), method \in Pick(req.method, Methods) :
        /\ dpop' = [dpop EXCEPT !.header = header, !.jwk = jwk,
                                !.signature = signature, !.htu = htu, !.htm = htm]
        /\ jwt' = [jwt EXCEPT !.cnf = cnf]
        /\ options' = [options EXCEPT !.realm = realm]
        /\ req' = [req EXCEPT !.host = host, !.method = method]
        /\ IF ~HtmMatches(htm, method)
             THEN PoPFailure(Rejection(Absent, Absent))  \* throw new Error({...})
             ELSE Continue(Then("validatePoPToken"))

\* PoPToken.validatePoPToken: the legacy proof either validates or is rejected
validateLegacyPoPToken ==
    \E outcome \in Pick(dpop.pop, PopOutcomes) :
        /\ dpop' = [dpop EXCEPT !.pop = outcome]
        /\ UNCHANGED <<jwt, req, options>>
        /\ IF outcome = "valid"
             THEN Continue(Then("validatePoPToken"))
             ELSE PoPFailure(Rejection("invalid_token", "Invalid PoP token signature"))

validatePoPToken ==
    /\ pc = "validatePoPToken"
    /\ Ran("validatePoPToken")
    /\ IF ~isPoPToken(credential)
         THEN /\ Continue(Then("validatePoPToken"))            \* only applies to PoP tokens
              /\ UNCHANGED <<dpop, jwt, req, options>>
         ELSE IF credential = "DPoPToken"
                THEN validateDPoPToken
                ELSE validateLegacyPoPToken
    /\ UNCHANGED <<token, tokenType, credential, providers, keys, published, downstream>>

(***************************************************************************)
(* POLICY: allow                                                           *)
(***************************************************************************)
Presence      == {Absent, "present"}           \* options.allow / options.deny
\* an allow filter: not given, a list, or a callable (with what it returns
\* for the claim of this request)
AllowFilters  == {Absent, "list", "fnTruthy", "fnFalsy"}
DenyFilters   == {Absent, "list"}
Issuers       == {"i1", "i2", "i3"}
Subjects      == {"s1", "s2", "s3"}
\* the aud claim: missing, a string, or a list
AudClaims     == {[kind |-> Absent,   vals |-> {}],
                  [kind |-> "string", vals |-> {"a1"}],
                  [kind |-> "string", vals |-> {"a2"}],
                  [kind |-> "string", vals |-> {"a3"}],
                  [kind |-> "list",   vals |-> {"a1", "a4"}],
                  [kind |-> "list",   vals |-> {"a2"}],
                  [kind |-> "list",   vals |-> {"a3", "a4"}],
                  [kind |-> "list",   vals |-> {"a4"}]}
\* the configured lists: x1 is allowed, x2 allowed and denied, x3 denied
AllowList(claim) == CASE claim = "aud" -> {"a1", "a2"}
                      [] claim = "iss" -> {"i1", "i2"}
                      [] claim = "sub" -> {"s1", "s2"}
DenyList(claim)  == CASE claim = "aud" -> {"a2", "a3"}
                      [] claim = "iss" -> {"i2", "i3"}
                      [] claim = "sub" -> {"s2", "s3"}

PickAud(cur, D) == IF cur.kind = Unread THEN D ELSE {cur}
IsFunction(filter) == filter \in {"fnTruthy", "fnFalsy"}

\* allowAudience: TRUE when it returns, FALSE when it responds 403
AudienceAllowed(audience, aud) ==
    IF audience = Absent THEN TRUE
    ELSE IF IsFunction(audience) THEN audience = "fnTruthy"
    ELSE IF aud.kind = "list" /\ ~(\E id \in AllowList("aud") : id \in aud.vals)
      THEN FALSE
    ELSE IF aud.kind = "string" /\ ~(aud.vals \subseteq AllowList("aud"))
      THEN FALSE
    ELSE TRUE

\* allowIssuer
IssuerAllowed(issuers, iss) ==
    IF issuers = Absent THEN TRUE
    ELSE IF IsFunction(issuers) THEN issuers = "fnTruthy"
    ELSE iss \in AllowList("iss")

\* allowSubject
SubjectAllowed(subjects, sub) ==
    IF subjects = Absent THEN TRUE
    ELSE IF IsFunction(subjects) THEN subjects = "fnTruthy"
    ELSE sub \in AllowList("sub")

\* variant: the audience filter is consulted for every credential
ChecksAudienceAlways(tt) == TRUE

\* request.tokenType === 'bearer': the audience filter is consulted
ChecksAudience(tt) == tt = "bearer"

\* allow: the first filter that rejects the token, "pass" when none does
AllowVerdict(o, tt, j) ==
    IF o.allow = Absent THEN "pass"
    ELSE IF ChecksAudience(tt) /\ ~AudienceAllowed(o.allowAudience, j.aud) THEN "audience"
    ELSE IF ~IssuerAllowed(o.allowIssuers, j.iss) THEN "issuer"
    ELSE IF ~SubjectAllowed(o.allowSubjects, j.sub) THEN "subject"
    ELSE "pass"

AllowDescription(claim, filter) ==
    CASE claim = "audience" /\ IsFunction(filter)
            -> "Token does not pass the audience allow filter"
      [] claim = "audience" -> "Audience is not on the allowed list"
      [] claim = "issuer" /\ IsFunction(filter)
            -> "Token does not pass the issuer allow filter"
      [] claim = "issuer" -> "Issuer is not on the allowed list"
      [] claim = "subject" /\ IsFunction(filter)
            -> "Token does not pass the subject allow filter"
      [] claim = "subject" -> "Subject is not on the allowed list"

allow ==
    /\ pc = "allow"
    /\ Ran("allow")
    /\ \E a \in Pick(options.allow, Presence) :
       \E af \in (IF a = "present" /\ ChecksAudience(tokenType)
                    THEN Pick(options.allowAudience, AllowFilters)
                    ELSE {options.allowAudience}) :
       \E aud \in (IF af = "list" THEN PickAud(jwt.aud, AudClaims) ELSE {jwt.aud}) :
       \E isf \in (IF a = "present"
                      /\ (ChecksAudience(tokenType) => AudienceAllowed(af, aud))
                     THEN Pick(options.allowIssuers, AllowFilters)
                     ELSE {options.allowIssuers}) :
       \E iss \in (IF isf = "list" THEN Pick(jwt.iss, Issuers) ELSE {jwt.iss}) :
       \E sf \in (IF isf # Unread /\ IssuerAllowed(isf, iss)
                    THEN Pick(options.allowSubjects, AllowFilters)
                    ELSE {options.allowSubjects}) :
       \E sub \in (IF sf = "list" THEN Pick(jwt.sub, Subjects) ELSE {jwt.sub}) :
        LET o == [options EXCEPT !.allow = a, !.allowAudience = af,
                                 !.allowIssuers = isf, !.allowSubjects = sf]
            j == [jwt EXCEPT !.aud = aud, !.iss = iss, !.sub = sub]
            v == AllowVerdict(o, tokenType, j)
            filter == CASE v = "audience" -> af [] v = "issuer" -> isf
                        [] v = "subject" -> sf [] OTHER -> Absent
        IN  /\ options' = o
            /\ jwt' = j
            /\ IF v = "pass"
                 THEN Continue(Then("allow"))
                 ELSE forbidden("access_denied", AllowDescription(v, filter))
    /\ UNCHANGED <<req, token, tokenType, credential, dpop, providers, keys, published, downstream>>

(***************************************************************************)
(* POLICY: deny                                                            *)
(***************************************************************************)
\* deny: the list that matches the token, "pass" when none does, "throws"
\* for the TypeError of audience.some / audience.includes on a deny option
\* without an audience list
DenyVerdict(o, j) ==
    IF o.deny = Absent THEN "pass"
    ELSE IF o.denyIssuers # Absent /\ j.iss \in DenyList("iss") THEN "issuer"
    ELSE IF j.aud.kind \in {"list", "string"} /\ o.denyAudience = Absent THEN "throws"
    ELSE IF j.aud.kind = "list" /\ (\E id \in DenyList("aud") : id \in j.aud.vals)
      THEN "audience"
    ELSE IF j.aud.kind = "string" /\ j.aud.vals \subseteq DenyList("aud")
      THEN "audience"
    ELSE IF o.denySubjects # Absent /\ j.sub \in DenyList("sub") THEN "subject"
    ELSE "pass"

DenyDescription(v) ==
    CASE v = "issuer"   -> "Issuer is on the deny blacklist"
      [] v = "audience" -> "Audience is on the deny blacklist"
      [] v = "subject"  -> "Subject is on the deny blacklist"

deny ==
    /\ pc = "deny"
    /\ Ran("deny")
    /\ \E d \in Pick(options.deny, Presence) :
       \E isf \in (IF d = "present" THEN Pick(options.denyIssuers, DenyFilters)
                                    ELSE {options.denyIssuers}) :
       \E iss \in (IF isf = "list" THEN Pick(jwt.iss, Issuers) ELSE {jwt.iss}) :
       \E aud \in (IF d = "present" /\ ~(isf = "list" /\ iss \in DenyList("iss"))
                     THEN PickAud(jwt.aud, AudClaims) ELSE {jwt.aud}) :
       \E af \in (IF aud.kind \in {"list", "string"}
                    THEN Pick(options.denyAudience, DenyFilters)
                    ELSE {options.denyAudience}) :
       \E sf \in (IF aud.kind # Unread
                     /\ DenyVerdict([options EXCEPT !.deny = d, !.denyIssuers = isf,
                                        !.denyAudience = af, !.denySubjects = Absent],
                                    [jwt EXCEPT !.iss = iss, !.aud = aud]) = "pass"
                    THEN Pick(options.denySubjects, DenyFilters)
                    ELSE {options.denySubjects}) :
       \E sub \in (IF sf = "list" THEN Pick(jwt.sub, Subjects) ELSE {jwt.sub}) :
        LET o == [options EXCEPT !.deny = d, !.denyIssuers = isf,
                                 !.denyAudience = af, !.denySubjects = sf]
            j == [jwt EXCEPT !.aud = aud, !.iss = iss, !.sub = sub]
            v == DenyVerdict(o, j)
        IN  /\ options' = o
            /\ jwt' = j
            /\ CASE v = "pass"   -> Continue(Then("deny"))
                 [] v = "throws" -> Throw("TypeError: Cannot read property 'some' of undefined")
                 [] OTHER        -> forbidden("access_denied", DenyDescription(v))
    /\ UNCHANGED <<req, token, tokenType, credential, dpop, providers, keys, published, downstream>>

(***************************************************************************)
(* KEY+SIG                                                                 *)
(***************************************************************************)
JwkSets == {1..v : v \in 1..MaxJwksVersion}
\* the kid of the token's header: 0 for a header without kid, a published
\* key, or one never published
Kids == 0..(MaxJwksVersion + 1)

\* credential.resolveKeys(jwks): the signing key with the token's kid, or the
\* only signing key when the token names none
KeyMatches(kid, jwks) == IF kid = 0 THEN Cardinality(jwks) = 1 ELSE kid \in jwks

\* ProviderCache.resolve(iss): the cached entry when there is one, otherwise
\* what discovery and the JWKS fetch give
ResolveOutcomes(cached) ==
    IF cached # NoJwks THEN {cached} ELSE {NoJwks} \cup JwkSets

\* ProviderCache.rotate(iss): always a fresh fetch; the issuer's JWK Set is
\* the one seen before or a later one
RotateOutcomes(seen) == {NoJwks} \cup {j \in JwkSets : seen \subseteq j}

\* resolveKeys, up to the call of providers.resolve(iss)
resolveKeys ==
    /\ pc = "resolveKeys"
    /\ Ran("resolveKeys")
    /\ keys' = [keys EXCEPT !.resolveCalls = @ + 1]
    /\ Continue("resolved")
    /\ UNCHANGED <<req, options, token, tokenType, jwt, credential, dpop, providers,
                   published, downstream>>

\* variant: the pipeline rotates whatever the first match gave
RotatesKeysAlways(matched) == TRUE

\* after a failed key match the pipeline rotates, otherwise it goes on
RotatesKeys(matched) == ~matched

\* providers.resolve(iss) settles: .then(provider => ...)
resolved ==
    /\ pc = "resolved"
    /\ UNCHANGED trace
    /\ \E cached \in PickCache(providers.cached, {NoJwks} \cup JwkSets) :
       \E jwks \in ResolveOutcomes(cached) :
        IF jwks = NoJwks
          THEN /\ providers' = [providers EXCEPT !.cached = cached]
               /\ keys' = [keys EXCEPT !.fetches = @ + 1]
               /\ UNCHANGED jwt
               /\ Throw("ResolveError")
          ELSE \E kid \in PickNumber(jwt.kid, Kids) :
               /\ providers' = [providers EXCEPT !.cached = jwks]
               /\ jwt' = [jwt EXCEPT !.kid = kid]
               /\ keys' = [keys EXCEPT
                      !.fetches = IF cached = NoJwks THEN @ + 1 ELSE @,
                      !.first = jwks,
                      !.resolveKeysCalls = @ + 1,
                      !.matched = KeyMatches(kid, jwks),
                      !.rotateCalls = IF RotatesKeys(KeyMatches(kid, jwks))
                                        THEN @ + 1 ELSE @]
               /\ IF RotatesKeys(KeyMatches(kid, jwks))
                    THEN Continue("rotated")
                    ELSE Continue(Then("resolveKeys"))
    /\ UNCHANGED <<req, options, token, tokenType, credential, dpop, published,
                   downstream>>

\* providers.rotate(iss) settles: .then(provider => ...)
rotated ==
    /\ pc = "rotated"
    /\ UNCHANGED trace
    /\ \E jwks \in RotateOutcomes(providers.cached) :
        IF jwks = NoJwks
          THEN /\ keys' = [keys EXCEPT !.fetches = @ + 1]
               /\ UNCHANGED providers
               /\ Throw("ResolveError")
          ELSE /\ providers' = [providers EXCEPT !.cached = jwks]
               /\ keys' = [keys EXCEPT !.fetches = @ + 1,
                                       !.rotated = jwks,
                                       !.resolveKeysCalls = @ + 1,
                                       !.matched = KeyMatches(jwt.kid, jwks)]
               /\ IF KeyMatches(jwt.kid, jwks)
                    THEN Continue(Then("resolveKeys"))
                    ELSE unauthorized("invalid_token",
                                      "Cannot find key to verify JWT signature")
    /\ UNCHANGED <<req, options, token, tokenType, jwt, credential, dpop, published,
                   downstream>>

TokenSignatures == {"valid", "invalid"}   \* of the access token, under the key

verifySignature ==
    /\ pc = "verifySignature"
    /\ Ran("verifySignature")
    /\ \E signature \in Pick(jwt.signature, TokenSignatures) :
        /\ jwt' = [jwt EXCEPT !.signature = signature]
        /\ IF signature # "valid"
             THEN unauthorized(Absent, Absent)
             ELSE Continue(Then("verifySignature"))
    /\ UNCHANGED <<req, options, token, tokenType, credential, dpop, providers, keys,
                   published, downstream>>

(***************************************************************************)
(* TEMPORAL                                                                *)
(***************************************************************************)
ExpiryTimes    == {Clock, Clock + 1}
NotBeforeTimes == {Clock, Clock + 1}

\* credential.validateExpiry() / validateNotBefore() do not throw
NotExpired(exp, now) == exp > now
Active(nbf, now) == nbf <= now

validateExpiry ==
    /\ pc = "validateExpiry"
    /\ Ran("validateExpiry")
    /\ \E exp \in PickNumber(jwt.exp, ExpiryTimes) :
        /\ jwt' = [jwt EXCEPT !.exp = exp]
        /\ IF ~NotExpired(exp, Clock)
             THEN unauthorized("invalid_token", "Access token is expired")
             ELSE Continue(Then("validateExpiry"))
    /\ UNCHANGED <<req, options, token, tokenType, credential, dpop, providers, keys,
                   published, downstream>>

validateNotBefore ==
    /\ pc = "validateNotBefore"
    /\ Ran("validateNotBefore")
    /\ \E nbf \in PickNumber(jwt.nbf, NotBeforeTimes) :
        /\ jwt' = [jwt EXCEPT !.nbf = nbf]
        /\ IF ~Active(nbf, Clock)
             THEN unauthorized("invalid_token", "Access token is not yet active")
             ELSE Continue(Then("validateNotBefore"))
    /\ UNCHANGED <<req, options, token, tokenType, credential, dpop, providers, keys,
                   published, downstream>>

(***************************************************************************)
(* SCOPE                                                                   *)
(***************************************************************************)
RequiredScopes == {Absent, "", "read write"}   \* options.scopes, joined
ScopeClaims    == {Absent, "read", "read write"}   \* jwt.payload.scope

\* the scope names of a space-delimited string
SplitScope(str) ==
    CASE str = "read"       -> {"read"}
      [] str = "read write" -> {"read", "write"}
      [] OTHER              -> {}

\* credential.validateScope(scopes) does not throw
SufficientScope(scopes, scope) ==
    SplitScope(scopes) = {} \/ SplitScope(scopes) \subseteq SplitScope(scope)

validateScope ==
    /\ pc = "validateScope"
    /\ Ran("validateScope")
    /\ \E scopes \in Pick(options.scopes, RequiredScopes) :
       \E scope \in (IF SplitScope(scopes) = {} THEN {jwt.scope}
                                                ELSE Pick(jwt.scope, ScopeClaims)) :
        /\ options' = [options EXCEPT !.scopes = scopes]
        /\ jwt' = [jwt EXCEPT !.scope = scope]
        /\ IF ~SufficientScope(scopes, scope)
             THEN forbidden("insufficient_scope", "Insufficient scope")
             ELSE Continue(Then("validateScope"))
    /\ UNCHANGED <<req, token, tokenType, credential, dpop, providers, keys,
                   published, downstream>>

(***************************************************************************)
(* SUCCESS and the final catch                                             *)
(***************************************************************************)
TokenProperties  == {Absent, "token"}
ClaimsProperties == {Absent, "user"}
Downstreams      == {"returns", "throws"}

\* the properties success writes on req
Publishes(c, tokenProperty, claimsProperty) ==
    (IF c # "none"
       THEN {IF Truthy(claimsProperty) THEN claimsProperty ELSE "claims"}
       ELSE {})
    \cup (IF c # "none" /\ Truthy(tokenProperty) THEN {tokenProperty} ELSE {})

success ==
    /\ pc = "success"
    /\ Ran("success")
    /\ \E tp \in (IF credential # "none" THEN Pick(options.tokenProperty, TokenProperties)
                                         ELSE {options.tokenProperty}) :
       \E cp \in (IF credential # "none" THEN Pick(options.claimsProperty, ClaimsProperties)
                                         ELSE {options.claimsProperty}) :
       \E d \in Pick(downstream, Downstreams) :
        /\ options' = [options EXCEPT !.tokenProperty = tp, !.claimsProperty = cp]
        /\ published' = published \cup Publishes(credential, tp, cp)
        /\ downstream' = d
        /\ nextCalls' = Append(nextCalls, "ok")
        /\ IF d = "throws"
             THEN /\ err' = UntaggedError("next() threw")
                  /\ pc' = "catch"
             ELSE /\ pc' = "done"
                  /\ UNCHANGED err
        /\ UNCHANGED <<handleErrors, res>>
    /\ UNCHANGED <<req, token, tokenType, jwt, credential, dpop, providers, keys>>

\* !error.handled
NeedsInternalServerError(e) == ~e.handled

\* .catch(error => request.error(error)), with internalServerError
error ==
    /\ pc = "catch"
    /\ UNCHANGED trace
    /\ IF NeedsInternalServerError(err)
         THEN \E he \in Pick(handleErrors, HandleErrorsValues) :
                /\ handleErrors' = he
                /\ IF ForwardsErrors(he)
                     THEN /\ nextCalls' = Append(nextCalls, "error")
                          /\ UNCHANGED res
                     ELSE /\ res' = [res EXCEPT !.status = 500,
                                         !.bodies = Append(@, "Internal Server Error")]
                          /\ UNCHANGED nextCalls
         ELSE UNCHANGED <<handleErrors, res, nextCalls>>
    /\ pc' = "done"
    /\ UNCHANGED <<req, options, token, tokenType, jwt, credential, dpop, providers,
                   keys, published, downstream, err>>

Next ==
    \/ validateAuthorizationHeader
    \/ validateQueryParameter
    \/ validateBodyParameter
    \/ requireAccessToken
    \/ validateAccessToken
    \/ decode
    \/ validatePoPToken
    \/ allow
    \/ deny
    \/ resolveKeys
    \/ resolved
    \/ rotated
    \/ verifySignature
    \/ validateExpiry
    \/ validateNotBefore
    \/ validateScope
    \/ success
    \/ error

Spec == Init /\ [][Next]_vars

(***************************************************************************)
(* Vocabulary of the properties                                            *)
(***************************************************************************)
Has(seq, x) == \E i \in 1..Len(seq) : seq[i] = x
IsPrefix(t, u) == Len(t) <= Len(u) /\ \A i \in 1..Len(t) : t[i] = u[i]
LastRan == IF trace = <<>> THEN "none" ELSE trace[Len(trace)]
\* the pipeline has ended
Ended == pc = "done"
\* a callback has thrown
Failed == err.kind # "none"
\* the step whose callback threw
FailedIn(step) == Failed /\ LastRan = step
\* next() was called without an error
CalledNext == Has(nextCalls, "ok")
\* next(error) was called
ForwardedError == Has(nextCalls, "error")
\* outcomes produced so far: calls of next and response bodies written
Outcomes == Len(nextCalls) + Len(res.bodies)

(***************************************************************************)
(* C1: the steps of a request run in the fixed order Authorization header, *)
(* query parameter, body parameter, require token, decode, PoP validation, *)
(* allow, deny, key resolution, signature verification, expiry,            *)
(* not-before, scope, success; each step runs only after all the earlier   *)
(* ones succeeded (a request without a token that may pass through goes    *)
(* from require token straight to success), and once a step has failed no  *)
(* further step, success included, runs.                                   *)
(***************************************************************************)
ClaimedOrder ==
    <<"validateAuthorizationHeader", "validateQueryParameter",
      "validateBodyParameter", "requireAccessToken", "decode",
      "validatePoPToken", "allow", "deny", "resolveKeys", "verifySignature",
      "validateExpiry", "validateNotBefore", "validateScope", "success">>

\* the steps of a run, without the validateAccessToken wrapper
StepsOf(t) == SelectSeq(t, LAMBDA step : step # "validateAccessToken")

InClaimedOrder(t) ==
    \/ IsPrefix(t, ClaimedOrder)
    \/ t = SubSeq(ClaimedOrder, 1, 4) \o <<"success">>

C2_ExactlyOneOutcome == Ended => Outcomes = 1


(***************************************************************************)
(* C3: whenever success is reached with a credential (claims published,    *)
(* next() called), resolve(iss) succeeded, a signing key was matched, the  *)
(* signature verified, the token is unexpired and active, no configured    *)
(* deny list matches iss, aud or sub, every required scope is in the scope *)
(* claim, and every configured allow filter is satisfied.                  *)
(***************************************************************************)
SucceededWithCredential == CalledNext /\ credential # "none" /\ published # {}

\* aud is a list sharing an element with the list, or a string in the list
ListHoldsAud(aud, list) ==
    \/ aud.kind = "list" /\ aud.vals \cap list # {}
    \/ aud.kind = "string" /\ aud.vals \subseteq list

\* a filter the configuration gives is satisfied by the claim
Satisfied(filter, inList) ==
    CASE filter = "list"     -> inList
      [] filter = "fnTruthy" -> TRUE
      [] filter = "fnFalsy"  -> FALSE
      [] OTHER               -> TRUE

AllowFiltersSatisfied ==
    options.allow = "present" =>
        /\ Satisfied(options.allowAudience, ListHoldsAud(jwt.aud, AllowList("aud")))
        /\ Satisfied(options.allowIssuers, jwt.iss \in AllowList("iss"))
        /\ Satisfied(options.allowSubjects, jwt.sub \in AllowList("sub"))

OnDenyList ==
    /\ options.deny = "present"
    /\ \/ options.denyIssuers = "list" /\ jwt.iss \in DenyList("iss")
       \/ options.denyAudience = "list" /\ ListHoldsAud(jwt.aud, DenyList("aud"))
       \/ options.denySubjects = "list" /\ jwt.sub \in DenyList("sub")

KeyResolvedAndSignatureVerified ==
    /\ keys.first # NoJwks
    /\ keys.matched
    /\ jwt.signature = "valid"

WithinValidity == jwt.exp > Clock /\ jwt.nbf <= Clock

ScopesPresent == SplitScope(options.scopes) \subseteq SplitScope(jwt.scope)

C3_SuccessImpliesAllChecks ==
    SucceededWithCredential =>
        /\ KeyResolvedAndSignatureVerified
        /\ WithinValidity
        /\ ~OnDenyList
        /\ ScopesPresent
        /\ AllowFiltersSatisfied

(***************************************************************************)
(* C4: the status and error code of a failed request are a function of the *)
(* phase of its first failure: EXTRACT 400 invalid_request; REQUIRE 401    *)
(* without error code; DECODE, POP_VERIFY, key-not-found and TEMPORAL 401  *)
(* invalid_token; a false signature verification 401 without error code;   *)
(* allow/deny 403 access_denied; SCOPE 403 insufficient_scope; any         *)
(* exception that is not a tagged failure 500.                             *)
(***************************************************************************)
Observed == <<res.status, res.error>>

PhaseRow(step) ==
    CASE step \in {"validateAuthorizationHeader", "validateQueryParameter",
                   "validateBodyParameter"}     -> <<400, "invalid_request">>
      [] step = "requireAccessToken"            -> <<401, Absent>>
      [] step \in {"decode", "validatePoPToken", "resolveKeys",
                   "validateExpiry", "validateNotBefore"}
                                                -> <<401, "invalid_token">>
      [] step = "verifySignature"               -> <<401, Absent>>
      [] step \in {"allow", "deny"}             -> <<403, "access_denied">>
      [] step = "validateScope"                 -> <<403, "insufficient_scope">>
      [] OTHER                                  -> <<500, Absent>>

ClaimedRow == IF err.kind = "tagged" THEN PhaseRow(LastRan) ELSE <<500, Absent>>

AmendedRow ==
    IF err.kind = "tagged"
      THEN (IF LastRan = "decode" /\ jwt.format = "jwt"
              THEN <<400, "invalid_request">>
              ELSE PhaseRow(LastRan))
    ELSE IF ForwardsErrors(handleErrors) THEN <<0, Absent>>
    ELSE <<500, Absent>>

FirstSetFetched == keys.first # NoJwks
RotatedSetFetched == keys.rotated # NoJwks

C5_ResolveOnceRotateOnce ==
    /\ keys.resolveCalls = (IF Has(trace, "resolveKeys") THEN 1 ELSE 0)
    /\ keys.rotateCalls <= 1
    /\ keys.rotateCalls = 1 <=> FirstSetFetched /\ ~KeyMatches(jwt.kid, keys.first)
    /\ keys.resolveKeysCalls = (IF FirstSetFetched THEN 1 ELSE 0)
                               + (IF RotatedSetFetched THEN 1 ELSE 0)
    /\ RotatedSetFetched => keys.rotateCalls = 1
    /\ RotatedSetFetched /\ KeyMatches(jwt.kid, keys.rotated) =>
          pc = "verifySignature" \/ Has(trace, "verifySignature")
    /\ RotatedSetFetched /\ ~KeyMatches(jwt.kid, keys.rotated) =>
          /\ FailedIn("resolveKeys")
          /\ ~CalledNext
          /\ Observed = <<401, "invalid_token">>
          /\ res.description = "Cannot find key to verify JWT signature"

\* a token whose key appeared only in the rotated set went on to its
\* signature verification
C5_Witness ==
    /\ keys.rotateCalls = 1
    /\ RotatedSetFetched
    /\ KeyMatches(jwt.kid, keys.rotated)
    /\ Has(trace, "verifySignature")

(***************************************************************************)
(* C6: when validatePoPToken of a DPoPToken completes without error, the   *)
(* proof's signature verifies under the jwk of its own header, the access  *)
(* token's cnf.jkt is present and equals the thumbprint of that jwk, the   *)
(* proof's htu equals the reconstructed target URI, and its htm equals the *)
(* request method.                                                         *)
(***************************************************************************)
PoPStepPassed == Has(trace, "validatePoPToken") /\ ~FailedIn("validatePoPToken")

DPoPProofHolds ==
    /\ dpop.header = "jwt"
    /\ dpop.jwk # Absent
    /\ dpop.signature = "valid"
    /\ jwt.cnf \notin {Unread, Absent, "nojkt"}
    /\ jwt.cnf = Thumbprint(dpop.jwk)
    /\ dpop.htu = RequiredHtu(options.realm, req.host, RequestPath)
    /\ dpop.htm = req.method

C6_DPoPSuccessImpliesProof ==
    credential = "DPoPToken" /\ PoPStepPassed => DPoPProofHolds

\* a DPoP proof presented on a subdomain of the server was accepted
C6_Witness ==
    /\ credential = "DPoPToken"
    /\ PoPStepPassed
    /\ req.host = <<"pod", "example", "com">>

(***************************************************************************)
(* C7: for a request whose scheme is dpop or whose token has token_type    *)
(* 'pop', validatePoPToken runs after decode and must succeed before       *)
(* allow, deny, key resolution, signature verification or success run; a   *)
(* failure of it ends the request with 401 invalid_token. For every other  *)
(* request the PoP step is skipped without effect.                         *)
(***************************************************************************)
NeedsPoP == tokenType = DPOP \/ jwt.token_type = "pop"

PoPProofHolds ==
    IF credential = "DPoPToken" THEN DPoPProofHolds ELSE dpop.pop = "valid"

AfterPoP == {"allow", "deny", "resolveKeys", "verifySignature", "success"}

C7_Guarded ==
    credential # "none" /\ NeedsPoP /\ (\E step \in AfterPoP : Has(trace, step))
        => PoPStepPassed /\ PoPProofHolds

C7_Step ==
    pc = "validatePoPToken" /\ pc' # pc =>
        /\ LastRan = "decode"
        /\ IF NeedsPoP
             THEN \/ pc' = "allow" /\ PoPProofHolds'
                  \/ pc' = "catch" /\ Observed' = <<401, "invalid_token">>
             ELSE pc' = "allow" /\ UNCHANGED <<res, nextCalls, err, dpop, jwt, req,
                                                options, credential>>

C7_PoPStepGuardsPipeline == []C7_Guarded /\ [][C7_Step]_vars

\* a DPoP request without a usable proof was answered with 401 invalid_token
C7_Witness ==
    /\ Ended
    /\ tokenType = DPOP
    /\ FailedIn("validatePoPToken")
    /\ Observed = <<401, "invalid_token">>

(***************************************************************************)
(* C8: with the allow option present, the audience filter is evaluated     *)
(* only for tokenType bearer; an absent filter is skipped; a callable      *)
(* passes iff it returns a truthy value; a list passes for aud iff aud is  *)
(* a list sharing an element with it or a string contained in it, and for  *)
(* iss / sub iff the claim is in it. The step ends in 403 access_denied    *)
(* iff some evaluated filter does not pass, in the order audience, issuer, *)
(* subject, the description naming the first failing claim; otherwise the  *)
(* pipeline proceeds to deny.                                              *)
(***************************************************************************)
FirstFailingFilter ==
    IF tokenType = "bearer"
       /\ ~Satisfied(options.allowAudience, ListHoldsAud(jwt.aud, AllowList("aud")))
      THEN "audience"
    ELSE IF ~Satisfied(options.allowIssuers, jwt.iss \in AllowList("iss")) THEN "issuer"
    ELSE IF ~Satisfied(options.allowSubjects, jwt.sub \in AllowList("sub")) THEN "subject"
    ELSE "pass"

NamedFilter ==
    CASE res.description \in {"Audience is not on the allowed list",
                              "Token does not pass the audience allow filter"} -> "audience"
      [] res.description \in {"Issuer is not on the allowed list",
                              "Token does not pass the issuer allow filter"} -> "issuer"
      [] res.description \in {"Subject is not on the allowed list",
                              "Token does not pass the subject allow filter"} -> "subject"
      [] OTHER -> "none"

C8_AllowSemantics ==
    LastRan = "allow" /\ options.allow = "present" =>
        IF FirstFailingFilter = "pass"
          THEN ~Failed /\ pc = "deny"
          ELSE /\ Failed
               /\ Observed = <<403, "access_denied">>
               /\ NamedFilter = FirstFailingFilter

(***************************************************************************)
(* C9: with the deny option present, the deny step ends in 403             *)
(* access_denied iff iss is in deny.issuers, or aud overlaps (list) or is  *)
(* in (string) deny.audience, or sub is in deny.subjects, an absent list   *)
(* matching nothing. In every other case, a deny configuration without     *)
(* audience and a token with an aud claim included, the step passes and    *)
(* the pipeline proceeds to key resolution.                                *)
(***************************************************************************)
C9_DenySemantics ==
    LastRan = "deny" /\ options.deny = "present" =>
        IF OnDenyList
          THEN Failed /\ Observed = <<403, "access_denied">>
          ELSE ~Failed /\ pc = "resolveKeys"

(***************************************************************************)
(* C10: when ProviderCache.resolve(iss) or ProviderCache.rotate(iss)       *)
(* fails, the request ends with status 401 and error invalid_token, and    *)
(* success is not reached.                                                 *)
(***************************************************************************)
ProviderFailed == LastRan = "resolveKeys" /\ err.description = "ResolveError"

C10_ProviderFailureIsInvalidToken ==
    Ended /\ ProviderFailed =>
        /\ Observed = <<401, "invalid_token">>
        /\ ~CalledNext

(***************************************************************************)
(* C11: when a DPoP request passes the proof's signature, cnf.jkt and htu  *)
(* checks but the proof's htm differs from the request method, the request *)
(* ends with 401 invalid_token and a description that refers to htm, not   *)
(* the generic PoP message.                                                *)
(***************************************************************************)
HtmMismatch ==
    /\ credential = "DPoPToken"
    /\ FailedIn("validatePoPToken")
    /\ dpop.signature = "valid"
    /\ jwt.cnf = Thumbprint(dpop.jwk)
    /\ dpop.htu = RequiredHtu(options.realm, req.host, RequestPath)
    /\ dpop.htm \in Methods
    /\ req.method \in Methods
    /\ dpop.htm # req.method

C11_HtmMismatchNamesHtm ==
    Ended /\ HtmMismatch =>
        /\ Observed = <<401, "invalid_token">>
        /\ res.description = "htm does not match"

(***************************************************************************)
(* C12: whenever more than one of the three locations yields a credential  *)
(* (a well-formed Bearer / DPoP Authorization header, a query access_token *)
(* on a route with query enabled, a body access_token), for every pair and *)
(* for all three, the request ends with 400 invalid_request 'Multiple      *)
(* authentication methods' and no token is decoded or validated.           *)
(***************************************************************************)
HeaderYields == req.authorization \in {"Bearer h.tok", "DPoP h.tok"}
QueryYields == req.query = "q.tok" /\ options.query = "true"
BodyYields == req.body = "b.tok"

SeveralYield ==
    \/ HeaderYields /\ QueryYields
    \/ HeaderYields /\ BodyYields
    \/ QueryYields /\ BodyYields

C12_MultipleMethodsRejected ==
    SeveralYield =>
        /\ Failed
        /\ Observed = <<400, "invalid_request">>
        /\ res.description = "Multiple authentication methods"
        /\ credential = "none"
        /\ ~Has(trace, "decode")
        /\ ~CalledNext

\* a request with a token in the header and another in the body was rejected
C12_Witness == Ended /\ HeaderYields /\ BodyYields /\ res.status = 400

(***************************************************************************)
(* C13: a request carrying a query access_token ends with 400              *)
(* invalid_request unless options.query is exactly true, whatever the      *)
(* value of optional and whatever other credential sources are present; a  *)
(* token from the query string is never decoded or validated when query    *)
(* is not true.                                                            *)
(***************************************************************************)
\* the query access_token was read on a route where query is not true
QueryTokenNotEnabled ==
    /\ req.query = "q.tok"
    /\ options.query \in StrictFlags \ {"true"}

C13_QueryNeedsExplicitTrue ==
    /\ QueryTokenNotEnabled =>
          /\ Failed
          /\ Observed = <<400, "invalid_request">>
          /\ token # "q.tok"
          /\ credential = "none"
          /\ ~Has(trace, "decode")
          /\ ~CalledNext
    \* a request that fails before its query string is looked at ends the same
    /\ FailedIn("validateAuthorizationHeader") => Observed = <<400, "invalid_request">>

\* a query token on a route configured with a truthy value other than true
C13_Witness ==
    /\ Ended
    /\ req.query = "q.tok"
    /\ options.query = "1"
    /\ req.authorization = "Bearer h.tok"
    /\ res.status = 400

(***************************************************************************)
(* C14: a body access_token is taken as the credential only when the       *)
(* Content-Type includes application/x-www-form-urlencoded; when a body    *)
(* access_token is present and the Content-Type does not include it, a     *)
(* request without Content-Type header included, the request ends with 400 *)
(* invalid_request.                                                        *)
(***************************************************************************)
BodyTokenWithoutFormType ==
    /\ req.body = "b.tok"
    /\ req.contentType \in ContentTypes
    /\ ~IncludesFormType(req.contentType)

C14_BodyNeedsFormContentType ==
    /\ token = "b.tok" => IncludesFormType(req.contentType)
    /\ Ended /\ BodyTokenWithoutFormType =>
          /\ Observed = <<400, "invalid_request">>
          /\ ~CalledNext

(***************************************************************************)
(* C15: every request that ends with status 400 contained two or more      *)
(* credential sources, or a malformed Authorization header (not exactly    *)
(* two components, or a scheme other than Bearer / DPoP), or a             *)
(* query-string credential while query is not enabled; no other condition  *)
(* in any step produces a 400.                                             *)
(***************************************************************************)
HeaderPresent == req.authorization \in Authorizations \ {Absent}
QueryPresent == req.query = "q.tok"
BodyPresent == req.body = "b.tok"

SeveralPresent ==
    \/ HeaderPresent /\ QueryPresent
    \/ HeaderPresent /\ BodyPresent
    \/ QueryPresent /\ BodyPresent

MalformedHeader ==
    /\ HeaderPresent
    /\ \/ Len(Split(req.authorization)) # 2
       \/ ToLowerCase(Split(req.authorization)[1]) \notin {"bearer", "dpop"}

WrongContentType == BodyPresent /\ req.contentType = "application/json"

CredentialNotBuilt ==
    /\ LastRan = "decode"
    /\ jwt.format = "jwt"
    /\ jwt.token_type = "pop"
    /\ jwt.inner = "garbage"

NoCredentialPresented ==
    req.authorization = Absent /\ req.query = Absent /\ req.body = Absent

CallsWithoutError == Cardinality({i \in 1..Len(nextCalls) : nextCalls[i] = "ok"})

C16_OptionalPassThrough ==
    /\ Ended /\ NoCredentialPresented /\ options.optional = "true" =>
          /\ Range(trace) \cap Range(ValidationChain) = {}
          /\ credential = "none"
          /\ published = {}
          /\ CallsWithoutError = 1
          /\ res.challenge = <<>>
    /\ NoCredentialPresented /\ options.optional \in StrictFlags \ {"true"} =>
          /\ FailedIn("requireAccessToken")
          /\ Observed = <<401, Absent>>
          /\ res.challenge = <<{"realm"}>>
          /\ ~CalledNext
    /\ CalledNext /\ token # "none" => Range(ValidationChain) \subseteq Range(trace)
    /\ token # "none" /\ Has(trace, "validateAccessToken") =>
          pc = "decode" \/ Has(trace, "decode")

\* a request without credential on a route whose optional is truthy but not
\* true was challenged
C16_Witness ==
    /\ Ended
    /\ NoCredentialPresented
    /\ options.optional = "1"
    /\ res.status = 401

(***************************************************************************)
(* C17: the scope step runs last, after the signature and temporal checks. *)
(* A request ends with 403 insufficient_scope only if at least one scope   *)
(* of options.scopes is absent from the scopes of the token's scope claim; *)
(* when options.scopes is empty or absent the scope step never fails.      *)
(***************************************************************************)
MissingScopes == SplitScope(options.scopes) \ SplitScope(jwt.scope)

C17_ScopeLastAndOnlyWhenMissing ==
    /\ Has(trace, "validateScope") =>
          /\ Range(ValidationChain) \subseteq Range(trace)
          /\ LastRan \in {"validateScope", "success"}
          /\ jwt.signature = "valid"
          /\ jwt.exp > Clock /\ jwt.nbf <= Clock
    /\ Observed = <<403, "insufficient_scope">> =>
          /\ FailedIn("validateScope")
          /\ MissingScopes # {}
    /\ Has(trace, "validateScope") /\ options.scopes \in {Absent, ""} =>
          ~FailedIn("validateScope")

\* a token with scope read on a route that requires read and write
C17_Witness ==
    /\ Ended
    /\ Observed = <<403, "insufficient_scope">>
    /\ jwt.scope = "read"
    /\ MissingScopes = {"write"}

(***************************************************************************)
(* C18: for every failed request, of status 400, 401, 403 or 500 alike: if *)
(* options.handleErrors is exactly false the error is forwarded by calling *)
(* next(error) and no response body is written; otherwise, which is the    *)
(* default, a response body is written and next is never called.           *)
(***************************************************************************)
C18_ForwardOrRespond ==
    Ended /\ Failed =>
        IF handleErrors = "false"
          THEN ForwardedError /\ res.bodies = <<>>
          ELSE res.bodies # <<>> /\ nextCalls = <<>>

(***************************************************************************)
(* C19: the request object is written only in SUCCESS: the claims are      *)
(* stored at claimsProperty (default 'claims') and the decoded JWT at      *)
(* tokenProperty only when tokenProperty is configured. In every failed    *)
(* outcome, and in the optional pass-through without a credential, neither *)
(* property is written.                                                    *)
(***************************************************************************)
ClaimsName == IF options.claimsProperty = "user" THEN "user" ELSE "claims"

C19_PublishedOnlyInSuccess ==
    /\ published # {} =>
          /\ Has(trace, "success")
          /\ credential # "none"
          /\ ClaimsName \in published
          /\ published \subseteq {ClaimsName, "token"}
          /\ "token" \in published <=> options.tokenProperty = "token"
    /\ credential = "none" => published = {}
    /\ Ended /\ Failed => published = {}

(***************************************************************************)
(* Several pipelines in KEY+SIG against the shared ProviderCache           *)
(*                                                                         *)
(* pc, jwt and keys hold one value per pipeline; providers is the cache    *)
(* entry of the one issuer, the JWK Set the issuer serves at the moment,   *)
(* and whether a fetch for it is in flight (single-flight: a rotation      *)
(* called during a fetch waits for that fetch).  An entry carries the      *)
(* number of the fetch that published it.                                  *)
(***************************************************************************)
NumPipelines == 2
Pipelines == 1..NumPipelines

Entry(jwks, gen) == [jwks |-> jwks, gen |-> gen]
NoEntry == Entry(NoJwks, 0)

\* variant: the retry looks at the provider of the outer callback again
RetryJwksStale(first, rotatedEntry) == first

\* the entry the retry is given: the provider of the rotate(iss) callback
RetryJwks(first, rotatedEntry) == rotatedEntry

InitConcurrent ==
    /\ pc = [p \in Pipelines |-> "resolveKeys"]
    /\ jwt \in [Pipelines -> [kid : Kids]]
    /\ keys = [p \in Pipelines |->
                 [first |-> NoEntry, before |-> NoEntry, rotated |-> NoEntry,
                  retried |-> NoEntry, rotateCalls |-> 0]]
    /\ providers = [cached |-> Entry(1..1, 1), live |-> 1, inflight |-> FALSE]
    /\ trace = <<>>
    /\ req = UnreadReq
    /\ options = UnreadOptions
    /\ handleErrors = Unread
    /\ token = "none"
    /\ tokenType = "bearer"
    /\ credential = "AccessToken"
    /\ dpop = UnreadDpop
    /\ res = [status |-> 0, challenge |-> <<>>, error |-> Absent,
              description |-> Absent, bodies |-> <<>>]
    /\ nextCalls = <<>>
    /\ published = {}
    /\ downstream = Unread
    /\ err = NoError

Untouched ==
    UNCHANGED <<trace, req, options, handleErrors, token, tokenType, credential,
                dpop, res, nextCalls, published, downstream, err, jwt>>

\* resolveKeys of pipeline p: providers.resolve(iss) gives the cached entry
resolveKeysIn(p) ==
    /\ pc[p] = "resolveKeys"
    /\ keys' = [keys EXCEPT ![p].first = providers.cached]
    /\ pc' = [pc EXCEPT ![p] = "resolved"]
    /\ UNCHANGED providers
    /\ Untouched

\* .then(provider => ...) of resolve: a match goes on, otherwise
\* providers.rotate(iss) is called, which starts a fetch or joins the one in
\* flight
resolvedIn(p) ==
    /\ pc[p] = "resolved"
    /\ IF RotatesKeys(KeyMatches(jwt[p].kid, keys[p].first.jwks))
         THEN /\ keys' = [keys EXCEPT ![p].before = providers.cached,
                                      ![p].rotateCalls = @ + 1]
              /\ providers' = [providers EXCEPT !.inflight = TRUE]
              /\ pc' = [pc EXCEPT ![p] = "rotating"]
         ELSE /\ pc' = [pc EXCEPT ![p] = "verifySignature"]
              /\ UNCHANGED <<keys, providers>>
    /\ Untouched

\* the fetch in flight settles: the cache entry is replaced by what the
\* issuer serves now and every waiting rotate(iss) resolves with it, or the
\* fetch fails and every waiting rotate(iss) rejects
fetchSettles ==
    /\ providers.inflight
    /\ LET waiting == {p \in Pipelines : pc[p] = "rotating"} IN
       \E jwks \in {NoJwks, 1..providers.live} :
        IF jwks = NoJwks
          THEN /\ providers' = [providers EXCEPT !.inflight = FALSE]
               /\ pc' = [p \in Pipelines |-> IF p \in waiting THEN "catch" ELSE pc[p]]
               /\ UNCHANGED keys
          ELSE LET entry == Entry(jwks, providers.cached.gen + 1) IN
               /\ providers' = [providers EXCEPT !.inflight = FALSE, !.cached = entry]
               /\ keys' = [p \in Pipelines |->
                             IF p \in waiting THEN [keys[p] EXCEPT !.rotated = entry]
                                              ELSE keys[p]]
               /\ pc' = [p \in Pipelines |-> IF p \in waiting THEN "rotated" ELSE pc[p]]
    /\ Untouched

\* .then(provider => ...) of rotate: resolveKeys is retried on provider.jwks
rotatedIn(p) ==
    /\ pc[p] = "rotated"
    /\ LET entry == RetryJwks(keys[p].first, keys[p].rotated) IN
        /\ keys' = [keys EXCEPT ![p].retried = entry]
        /\ pc' = [pc EXCEPT ![p] = IF KeyMatches(jwt[p].kid, entry.jwks)
                                     THEN "verifySignature"
                                     ELSE "unauthorized"]
    /\ UNCHANGED providers
    /\ Untouched

\* the issuer adds a signing key to the JWK Set it serves
issuerPublishes ==
    /\ providers.live < MaxJwksVersion
    /\ providers' = [providers EXCEPT !.live = @ + 1]
    /\ UNCHANGED <<pc, keys>>
    /\ Untouched

NextConcurrent ==
    \/ \E p \in Pipelines : resolveKeysIn(p)
    \/ \E p \in Pipelines : resolvedIn(p)
    \/ \E p \in Pipelines : rotatedIn(p)
    \/ fetchSettles
    \/ issuerPublishes

SpecConcurrent == InitConcurrent /\ [][NextConcurrent]_vars

(***************************************************************************)
(* C20: with several pipelines running against the shared ProviderCache,   *)
(* the retry of resolveKeys after a rotation triggered by the pipeline's   *)
(* own failed key match uses the JWK Set published by that rotate(iss)     *)
(* call (or a later one), never the one cached before the rotation.        *)
(***************************************************************************)
Retried(p) == keys[p].retried # NoEntry

C20_RetryUsesRotatedSet ==
    \A p \in Pipelines :
        Retried(p) =>
            /\ keys[p].rotateCalls = 1
            /\ keys[p].retried.gen >= keys[p].rotated.gen
            /\ keys[p].retried.gen > keys[p].before.gen
            /\ keys[p].retried.gen > keys[p].first.gen

\* a pipeline retried on its rotated set after another pipeline's rotation
\* had replaced the entry it first resolved
C20_Witness ==
    \E p \in Pipelines :
        /\ Retried(p)
        /\ keys[p].first.gen < keys[p].before.gen
        /\ pc[p] = "verifySignature"

(***************************************************************************)
(* C21: Credential.from selects the variant by priority: token_type 'pop'  *)
(* gives a PoPToken, also when the detected scheme is dpop; otherwise a    *)
(* detected scheme of dpop gives a DPoPToken built from the request's DPoP *)
(* header, the server URI and the request; otherwise an AccessToken.       *)
(* Exactly one variant is produced for every decoded JWT.                  *)
(***************************************************************************)
Decoded == Has(trace, "decode") /\ jwt.format = "jwt"

VariantByPriority ==
    IF jwt.token_type = "pop" THEN "PoPToken"
    ELSE IF tokenType = "dpop" THEN "DPoPToken"
    ELSE "AccessToken"

RightmostLabelsEqual(configured, host) ==
    /\ Len(host) >= Len(configured)
    /\ SubSeq(host, Len(host) - Len(configured) + 1, Len(host)) = configured

ConfiguredHost == <<"example", "com">>

ExpectedHtu ==
    [host |-> IF RightmostLabelsEqual(ConfiguredHost, req.host)
                THEN req.host ELSE ConfiguredHost,
     path |-> RequestPath]

\* the DPoP validation of this request came to compare the htu
HtuCompared ==
    /\ credential = "DPoPToken"
    /\ Has(trace, "validatePoPToken")
    /\ options.realm = "https://example.com"
    /\ req.host \in RequestHosts
    /\ dpop.htu.path # Unread

HtuRejected ==
    /\ FailedIn("validatePoPToken")
    /\ Observed = <<401, "invalid_token">>
    /\ res.description = "htu does not match"

C22_SubdomainByLabels ==
    /\ \A h \in RequestHosts :
          isSubdomain(ConfiguredHost, h) <=> h \in {<<"example", "com">>,
                                                     <<"pod", "example", "com">>}
    /\ HtuCompared /\ dpop.htu # ExpectedHtu => HtuRejected
    /\ HtuCompared /\ dpop.htu = ExpectedHtu => ~HtuRejected
    /\ HtuRejected => HtuCompared

\* a proof naming the request's host is rejected when that host only ends
\* with the characters of the configured one, or has fewer labels
C22_Witness ==
    /\ Ended
    /\ HtuRejected
    /\ req.host \in {<<"evilexample", "com">>, <<"com">>}
    /\ dpop.htu = [host |-> req.host, path |-> RequestPath]

(***************************************************************************)
(* C23: the audience allow filter is applied only to a credential taken    *)
(* from an Authorization header with the Bearer scheme.  tokenType is      *)
(* assigned only in validateAuthorizationHeader, so for a credential taken *)
(* from the query string or the form body tokenType is unset and           *)
(* allow.audience is never evaluated: no such request is rejected by the   *)
(* audience allow filter, and it can reach success with an aud that is not *)
(* in allow.audience.                                                      *)
(***************************************************************************)
FromQueryOrBody == token \in {"q.tok", "b.tok"}

AudienceFilterRejected ==
    /\ FailedIn("allow")
    /\ res.description \in {"Token does not pass the audience allow filter",
                            "Audience is not on the allowed list"}

\* tokenType changes only in the step validateAuthorizationHeader
TokenTypeAssignedInHeaderStep ==
    tokenType' # tokenType => pc = "validateAuthorizationHeader"

C23_AudienceOnlyForBearerHeader ==
    /\ [](/\ tokenType = "bearer" =>
                /\ req.authorization = "Bearer h.tok"
                /\ token = "h.tok"
          /\ FromQueryOrBody => tokenType = "none"
          /\ AudienceFilterRejected => tokenType = "bearer"
          \* the filter is not read for a credential of another origin
          /\ Has(trace, "allow") /\ tokenType # "bearer" /\ ~Failed =>
                \/ options.allowAudience = Unread
                \/ options.allowAudience = "list" /\ options.allow = "present"
          \* and where it is consulted, a token off the list is rejected
          /\ Has(trace, "allow") /\ tokenType = "bearer"
               /\ options.allow = "present"
               /\ ~AudienceAllowed(options.allowAudience, jwt.aud) =>
                AudienceFilterRejected)
    /\ [][TokenTypeAssignedInHeaderStep]_vars

\* a token from the query string or the form body, with an aud that is not
\* on the configured allow.audience list, reaches success
C23_Witness ==
    /\ Ended
    /\ CalledNext
    /\ FromQueryOrBody
    /\ options.allow = "present"
    /\ options.allowAudience = "list"
    /\ jwt.aud.kind \in {"string", "list"}
    /\ jwt.aud.vals \cap AllowList("aud") = {}

(***************************************************************************)
(* C24: no ProviderCache.resolve or ProviderCache.rotate call is made for  *)
(* a request that fails at EXTRACT, REQUIRE, DECODE, POP_VERIFY or POLICY, *)
(* nor for an optional pass-through; in particular a token whose iss is on *)
(* deny.issuers or is rejected by allow.issuers never triggers provider    *)
(* discovery or a JWKS fetch.                                              *)
(***************************************************************************)
StepsBeforeKeys ==
    {"validateAuthorizationHeader", "validateQueryParameter",
     "validateBodyParameter", "requireAccessToken",
     "decode", "validatePoPToken", "allow", "deny"}

FailedBeforeKeys == \E step \in StepsBeforeKeys : FailedIn(step)

\* validateAccessToken returned the request without a token
OptionalPassThrough ==
    /\ token = "none"
    /\ Has(trace, "validateAccessToken")
    /\ ~FailedBeforeKeys

IssuerRejected ==
    \/ FailedIn("allow") /\ res.description \in
           {"Issuer is not on the allowed list",
            "Token does not pass the issuer allow filter"}
    \/ FailedIn("deny") /\ options.denyIssuers = "list"
                        /\ jwt.iss \in DenyList("iss")

NoProviderCall ==
    /\ keys.resolveCalls = 0
    /\ keys.rotateCalls = 0
    /\ keys.fetches = 0
    /\ keys.first = NoJwks
    /\ keys.rotated = NoJwks

\* the provider cache is used by the steps of resolveKeys alone
ProviderCallInResolveKeys ==
    keys' # keys \/ providers' # providers =>
        pc \in {"resolveKeys", "resolved", "rotated"}

C24_NoProviderCallBeforeKeys ==
    /\ [](/\ FailedBeforeKeys => NoProviderCall
          /\ OptionalPassThrough => NoProviderCall
          /\ IssuerRejected => NoProviderCall
          /\ ~NoProviderCall => IsPrefix(<<"decode", "validatePoPToken", "allow",
                                          "deny", "resolveKeys">>,
                                         SubSeq(trace, 6, Len(trace))))
    /\ [][ProviderCallInResolveKeys]_vars

\* a token of a denied issuer was refused and no provider call was made
C24_Witness ==
    /\ Ended
    /\ FailedIn("deny")
    /\ options.denyIssuers = "list"
    /\ jwt.iss = "i3"
    /\ Observed = <<403, "access_denied">>
    /\ NoProviderCall

====
